---- MODULE Spec2Model ----
(***************************************************************************)
(* Model of static/js/script.js: the VideoDownloader page controller.      *)
(*                                                                         *)
(* The browser runs one handler at a time; every `await` is a suspension   *)
(* point.  Each action below is one uninterrupted run of a handler: from   *)
(* the event (click, response, timer) up to the next await or the end.     *)
(* A request in flight is a member of a request sequence / counter; its    *)
(* resolution (success or failure, chosen by the backend) is a separate    *)
(* action.                                                                 *)
(*                                                                         *)
(* Environment: titles and format names are plain text and localStorage    *)
(* accepts every write, so addToDownloadHistory does not throw; the        *)
(* backend numbers its jobs, so no identifier is issued twice; a hidden or *)
(* disabled button receives no click; the page markup puts no child node   *)
(* of its own into #historyList, so its last child is its oldest item.     *)
(***************************************************************************)
EXTENDS Integers, Sequences, FiniteSets, TLC

\* ---------------------------------------------------------------- bounds
MaxJobs == 2        \* download ids the backend issues in one run
MaxBatches == 2     \* batch ids the backend issues in one run
MaxCreateReqs == 2  \* /start_download requests in flight at once
MaxBatchReqs == 1   \* /batch_download requests in flight at once
MaxPolls == 2       \* status fetches recorded for one polling loop
MaxInfoReqs == 1    \* /get_info requests in flight at once
MaxFileReqs == 1    \* /download_file requests in flight at once
MaxTimers == 1      \* pending auto-hide timers of showError
MaxLines == 2       \* lines typed in the batch textarea
MaxAppends == 11    \* history entries recorded since the storage was empty

\* ------------------------------------------------------- program constants
NoJob == 0          \* this.currentDownloadId = null
HistoryCap == 10    \* "Limit history to 10 items"

JobIds == 1..MaxJobs
BatchIds == 1..MaxBatches
OneJob == {1}

\* the videos the backend knows (a video stands for its metadata: title and
\* format list) and the format names it lists for each
Metas == {"v1", "v2"}
OneVideo == {"v1"}
FormatNames == {"mp4"}

\* this.currentVideoInfo = null
NoMeta == "null"

\* this.selectedFormat is undefined until a format item is clicked
NoFormat == [meta |-> NoMeta, name |-> "undefined"]
FormatsOf(m) == {[meta |-> m, name |-> n] : n \in FormatNames}

\* status tags of the /download_status payload; a single download is
\* reported as downloading, a batch as processing
SingleStatuses == {"pending", "downloading", "finished", "error"}
BatchStatuses == {"pending", "processing", "finished", "error"}
Terminal == {"finished", "error"}
NonTerminal == {"pending", "downloading", "processing"}

\* lines the user may type in the batch textarea, and String.trim on them
LineSet == {"", " ", " a"}
Trim(s) == CASE s = " " -> "" [] s = " a" -> "a" [] OTHER -> s
BatchTexts == UNION {[1..n -> LineSet] : n \in 0..MaxLines}
PollTexts == {<<>>, <<" a">>}

VARIABLES
    currentDownloadId,  \* this.currentDownloadId
    currentVideoInfo,   \* this.currentVideoInfo (the video it describes)
    selectedFormat,     \* this.selectedFormat
    formatShown,        \* #formatSection is displayed
    urlInput,           \* #urlInput value, one character per element
    fetchInfoDisabled,  \* #fetchInfoBtn.disabled
    btn,                \* #downloadBtn: disabled, label, shown, onclick
    progress,           \* #progressSection shown, #progressFill, #progressText
    urlError,           \* the message #urlError displays ("" while display is none)
    hideTimers,         \* pending 5 s auto-hide timers of showError
    infoReqs,           \* /get_info requests in flight
    createReqs,         \* /start_download requests in flight, oldest first
    nJobs,              \* download ids issued by the backend so far
    jobReq,             \* the /start_download request each job was created by
    loops,              \* polling loops of monitorDownloadProgress, by job id
    fileReqs,           \* /download_file requests in flight, by job id
    saved,              \* the last file handed to the browser for saving
    historyList,        \* #historyList children, first child first
    storage,            \* localStorage item 'downloadHistory', parsed
    appended,           \* every history entry ever recorded, newest first
    batchReqs,          \* /batch_download requests in flight, oldest first
    nBatches,           \* batch ids issued by the backend so far
    bloops,             \* polling loops of monitorBatchProgress, by batch id
    batchProgress,      \* content of #batchProgress
    slog,               \* record of the single-job loop started last
    blog                \* record of the batch loop started last

vars == <<currentDownloadId, currentVideoInfo, selectedFormat, formatShown,
          urlInput, fetchInfoDisabled, btn, progress, urlError, hideTimers, infoReqs, createReqs, nJobs,
          jobReq, loops, fileReqs, saved, historyList, storage, appended, batchReqs,
          nBatches, bloops, batchProgress, slog, blog>>

histVars == <<historyList, storage, appended>>
singleVars == <<currentDownloadId, btn, progress, createReqs, nJobs, loops,
                fileReqs, saved, histVars, jobReq, slog>>
batchVars == <<batchReqs, nBatches, bloops, batchProgress, blog>>
urlVars == <<urlInput, fetchInfoDisabled>>
infoVars == <<currentVideoInfo, selectedFormat, formatShown, infoReqs, urlVars>>
errVars == <<urlError, hideTimers>>

\* A polling loop (one call of monitorDownloadProgress): whether it was
\* started, its status fetches in flight, its timers set by setTimeout, and
\* the status its if / else-if chain ran on last.
NoLoop == [started |-> FALSE, inflight |-> 0, timers |-> 0, last |-> "none"]

\* a batch loop also holds the `total` argument of monitorBatchProgress
NoBatchLoop == [started |-> FALSE, inflight |-> 0, timers |-> 0, last |-> "none",
                total |-> 0]

\* The record kept of the loop started last: the identifiers its fetches
\* were issued for, the outcomes of its fetches, and the statuses its
\* if / else-if chain was run on, each in order.
NoLog == [id |-> NoJob, polled |-> <<>>, resp |-> <<>>, handled |-> <<>>]

Last(s) == s[Len(s)]
Remove(s, i) == [k \in 1..(Len(s) - 1) |-> IF k < i THEN s[k] ELSE s[k + 1]]
Live(l) == l.inflight + l.timers > 0

\* #urlError shows nothing
NoError == ""

\* no /start_download request
NoRequest == [url |-> <<>>, format |-> NoFormat, title |-> NoMeta]

\* nothing saved yet
NoFile == [id |-> NoJob, title |-> NoMeta, format |-> NoFormat]

\* ------------------------------------------------------------ history text
\* A text is a sequence of tokens: a blank, the bullet that addToDownloadHistory
\* and loadDownloadHistory put between format and time, or a run of other
\* characters.
Blank == " "
Sep == "bullet"

\* the title of a video and the display name of a format, as texts
TitleOf(m) == <<m>>
NameOf(f) == <<f.name>>

\* toLocaleTimeString() at the n-th entry ever recorded: the clock shows a
\* different string each time
TimeString(n) == [k \in 1..n |-> "1"]
Clock == TimeString(Len(appended) + 1)

\* String.trim
TrimText(s) ==
    LET kept == {i \in DOMAIN s : s[i] # Blank}
    IN IF kept = {} THEN <<>>
       ELSE SubSeq(s, CHOOSE i \in kept : \A k \in kept : i <= k,
                      CHOOSE i \in kept : \A k \in kept : i >= k)

\* String.split('bullet')[k]
FirstSep(s) ==
    LET at == {i \in DOMAIN s : s[i] = Sep}
    IN IF at = {} THEN Len(s) + 1 ELSE CHOOSE i \in at : \A k \in at : i <= k

RECURSIVE SplitPart(_, _)
SplitPart(s, k) ==
    IF k = 0 THEN SubSeq(s, 1, FirstSep(s) - 1)
    ELSE SplitPart(SubSeq(s, FirstSep(s) + 1, Len(s)), k - 1)

\* String.replace(tag, ''): the first occurrence of the tag is removed
ReplaceFirst(s, tag) ==
    LET at == {i \in DOMAIN s : s[i] = tag}
    IN IF at = {} THEN s
       ELSE Remove(s, CHOOSE i \in at : \A k \in at : i <= k)

\* the text content of the two spans of a .history-item built from
\* `<span><strong>${title}</strong></span><span>${format} bullet ${time}</span>`
HistoryItem(title, format, time) ==
    [strong |-> title, info |-> format \o <<Blank, Sep, Blank>> \o time]

\* loadDownloadHistory: one item per stored record, in stored order
LoadDownloadHistory(stored) ==
    [i \in DOMAIN stored |->
        HistoryItem(stored[i].title, stored[i].format, stored[i].time)]

\* saveDownloadHistory: one record per item, read back from the text of
\* its spans
SaveDownloadHistory(items) ==
    [i \in DOMAIN items |->
        [title |-> ReplaceFirst(ReplaceFirst(items[i].strong, "<strong>"), "</strong>"),
         format |-> TrimText(SplitPart(items[i].info, 0)),
         time |-> TrimText(SplitPart(items[i].info, 1))]]

\* the state after the constructor, with `stored` in localStorage
PageInit(stored) ==
    /\ currentDownloadId = NoJob
    /\ currentVideoInfo = NoMeta
    /\ selectedFormat = NoFormat
    /\ formatShown = FALSE
    /\ urlInput = <<>>
    \* the initial display of #downloadBtn / #progressSection is set by the
    \* page markup, which is not part of the script
    /\ \E shown \in BOOLEAN :
         /\ btn = [disabled |-> FALSE, label |-> "markup", shown |-> shown,
                   onclick |-> FALSE]
         /\ progress = [shown |-> shown, fill |-> "0", text |-> "markup"]
    \* and so is the initial state of #fetchInfoBtn
    /\ fetchInfoDisabled \in BOOLEAN
    /\ urlError = NoError
    /\ hideTimers = 0
    /\ infoReqs = 0
    /\ createReqs = <<>>
    /\ nJobs = 0
    /\ jobReq = [j \in JobIds |-> NoRequest]
    /\ loops = [j \in JobIds |-> NoLoop]
    /\ fileReqs = [j \in JobIds |-> 0]
    /\ saved = NoFile
    /\ historyList = LoadDownloadHistory(stored)
    /\ storage = stored
    /\ appended = stored
    /\ batchReqs = <<>>
    /\ nBatches = 0
    /\ bloops = [b \in BatchIds |-> NoBatchLoop]
    /\ batchProgress = [kind |-> "markup", completed |-> 0, total |-> 0, pct |-> 0]
    /\ slog = NoLog
    /\ blog = NoLog

\* a browser whose localStorage holds no history
Init == PageInit(<<>>)

\* --------------------------------------------------------- loop recording
LogFetch(log, loop, id) ==
    IF log.id = loop THEN [log EXCEPT !.polled = Append(@, id)] ELSE log

LogFail(log, loop) ==
    IF log.id = loop THEN [log EXCEPT !.resp = Append(@, "fail")] ELSE log

LogStatus(log, loop, s) ==
    IF log.id = loop
    THEN [log EXCEPT !.resp = Append(@, s), !.handled = Append(@, s)]
    ELSE log

\* the record has room for one more fetch of this loop
LogRoom(log, loop) == log.id = loop => Len(log.polled) < MaxPolls

\* ------------------------------------------------------------- showError
ShowError(message) == message

\* the timer set by showError fires
HideError ==
    /\ hideTimers > 0
    /\ hideTimers' = hideTimers - 1
    /\ urlError' = NoError
    /\ UNCHANGED <<singleVars, batchVars, infoVars>>

\* ------------------------------------------------------------- validateUrl
\* what the user may type into #urlInput
Url9 == <<"h", "t", "t", "p", ":", "/", "/", "a", "b">>
Url10 == <<"h", "t", "t", "p", ":", "/", "/", "a", ".", "b">>
Junk10 == <<"a", "a", "a", "a", "a", "a", "a", "a", "a", "a">>
Urls == {<<>>, <<Blank>>, Url9, Url10, Junk10}
OneUrl == {Url10}

\* new URL(url) of the browser does not throw: of the strings above, the
\* two with a scheme and a host
UrlParses(url) == url \in {Url9, Url10}

\* a length test that is off by one
MinUrlLengthNine == 10 - 1

\* validateUrl: url.length < 10
MinUrlLength == 10

\* an input event on #urlInput (the value has changed): the listener calls
\* validateUrl(e.target.value)
ValidateUrl(url) ==
    /\ url # urlInput
    /\ urlInput' = url
    /\ fetchInfoDisabled' = IF Len(url) < MinUrlLength THEN TRUE
                            ELSE ~UrlParses(url)
    /\ urlError' = IF Len(url) >= MinUrlLength /\ ~UrlParses(url)
                   THEN "Please enter a valid URL"
                   ELSE NoError
    /\ UNCHANGED <<currentVideoInfo, selectedFormat, formatShown, infoReqs,
                   hideTimers, singleVars, batchVars>>

\* ---------------------------------------------------------- fetchVideoInfo
\* click on #fetchInfoBtn: a value that trims to nothing returns at once,
\* any other runs up to `await fetch`
FetchVideoInfo ==
    /\ ~fetchInfoDisabled
    /\ IF TrimText(urlInput) = <<>>
       THEN UNCHANGED <<formatShown, infoReqs>>
       ELSE /\ infoReqs < MaxInfoReqs
            /\ formatShown' = FALSE
            /\ infoReqs' = infoReqs + 1
    /\ UNCHANGED <<currentVideoInfo, selectedFormat, urlVars, singleVars,
                   batchVars, errVars>>

\* /get_info answered ok with the metadata of video m:
\* this.currentVideoInfo = data; displayVideoInfo; displayFormats
FetchVideoInfoOk(m) ==
    /\ infoReqs > 0
    /\ infoReqs' = infoReqs - 1
    /\ currentVideoInfo' = m
    /\ formatShown' = TRUE
    /\ UNCHANGED <<selectedFormat, urlVars, singleVars, batchVars, errVars>>

\* /get_info rejected, or the response did not parse
FetchVideoInfoFail ==
    /\ infoReqs > 0
    /\ hideTimers < MaxTimers
    /\ infoReqs' = infoReqs - 1
    /\ urlError' = ShowError("Failed to fetch video info")
    /\ hideTimers' = hideTimers + 1
    /\ UNCHANGED <<currentVideoInfo, selectedFormat, formatShown, urlVars,
                   singleVars, batchVars>>

\* click on a .format-item rendered by displayFormats
SelectFormat(f) ==
    /\ formatShown
    /\ currentVideoInfo # NoMeta
    /\ f \in FormatsOf(currentVideoInfo)
    /\ selectedFormat' = f
    /\ progress' = [progress EXCEPT !.shown = TRUE]
    /\ btn' = [btn EXCEPT !.shown = TRUE]
    /\ UNCHANGED <<currentVideoInfo, formatShown, infoReqs, urlVars, currentDownloadId,
                   createReqs, nJobs, loops, fileReqs, saved, histVars, jobReq, slog,
                   batchVars, errVars>>

\* ------------------------------------------------------------ startDownload
\* a guard that forgets the format
StartDownloadValidNoFormat == currentVideoInfo # NoMeta

\* the guard of startDownload
StartDownloadValid == selectedFormat # NoFormat /\ currentVideoInfo # NoMeta

\* a button left enabled while the request is in flight
StartDownloadBtnEnabled == [btn EXCEPT !.label = "Starting Download..."]

\* #downloadBtn once startDownload has passed its guard
StartDownloadBtn == [btn EXCEPT !.disabled = TRUE, !.label = "Starting Download..."]

\* the guard of downloadFile
DownloadFileGuard == currentDownloadId # NoJob

FileInFlight == LET Sum[j \in 0..MaxJobs] == IF j = 0 THEN 0 ELSE Sum[j - 1] + fileReqs[j]
                IN Sum[MaxJobs]

\* click on #downloadBtn.  Two handlers are attached to the button: the
\* click listener of initializeEventListeners (startDownload) and, once a
\* job has finished, the onclick property (downloadFile).  One click runs
\* both, each up to its first await.
ClickDownloadBtn ==
    /\ btn.shown /\ ~btn.disabled
    /\ LET valid == StartDownloadValid
           file == btn.onclick /\ DownloadFileGuard
       IN
       /\ valid => Len(createReqs) < MaxCreateReqs
       /\ ~valid => hideTimers < MaxTimers
       /\ file => FileInFlight < MaxFileReqs
       /\ btn' = IF valid THEN StartDownloadBtn ELSE btn
       /\ createReqs' = IF valid
                        THEN Append(createReqs, [url |-> TrimText(urlInput),
                                                 format |-> selectedFormat,
                                                 title |-> currentVideoInfo])
                        ELSE createReqs
       /\ urlError' = IF valid THEN urlError ELSE ShowError("Please select a format first")
       /\ hideTimers' = IF valid THEN hideTimers ELSE hideTimers + 1
       /\ fileReqs' = IF file THEN [fileReqs EXCEPT ![currentDownloadId] = @ + 1]
                      ELSE fileReqs
    /\ UNCHANGED <<currentDownloadId, progress, nJobs, loops, saved, histVars, jobReq,
                   slog, batchVars, infoVars>>

\* the i-th /start_download in flight is answered ok with download_id id
\* (the backend numbers its jobs): this.currentDownloadId = data.download_id;
\* monitorDownloadProgress() runs checkProgress up to its first `await fetch`
StartDownloadOk(i, id) ==
    /\ i \in DOMAIN createReqs
    /\ id = nJobs + 1
    /\ createReqs' = Remove(createReqs, i)
    /\ nJobs' = nJobs + 1
    /\ jobReq' = [jobReq EXCEPT ![id] = createReqs[i]]
    /\ currentDownloadId' = id
    /\ loops' = [loops EXCEPT ![id] =
                   [@ EXCEPT !.started = TRUE, !.inflight = @ + 1]]
    /\ slog' = LogFetch([NoLog EXCEPT !.id = id], id, id)
    /\ UNCHANGED <<btn, progress, fileReqs, saved, histVars,
                   batchVars, infoVars, errVars>>

\* a catch block that leaves the button as it is
CatchDownloadBtnKept == btn

\* #downloadBtn after the catch block of startDownload
CatchDownloadBtn == [btn EXCEPT !.disabled = FALSE, !.label = "Download Now"]

\* /start_download rejected or failed: the catch block
StartDownloadFail(i) ==
    /\ i \in DOMAIN createReqs
    /\ hideTimers < MaxTimers
    /\ createReqs' = Remove(createReqs, i)
    /\ urlError' = ShowError("Download failed")
    /\ hideTimers' = hideTimers + 1
    /\ btn' = CatchDownloadBtn
    /\ UNCHANGED <<currentDownloadId, progress, nJobs, loops, fileReqs, saved,
                   histVars, jobReq, slog, batchVars, infoVars>>

\* --------------------------------------------------- monitorDownloadProgress
\* addToDownloadHistory: insert as first child, drop the last child when
\* more than 10 remain
\* a list that only grows
AddToDownloadHistoryNoEvict(title, format, time) ==
    <<HistoryItem(title, format, time)>> \o historyList

AddToDownloadHistory(title, format, time) ==
    LET inserted == <<HistoryItem(title, format, time)>> \o historyList
    IN IF Len(inserted) > HistoryCap THEN SubSeq(inserted, 1, Len(inserted) - 1)
       ELSE inserted

\* the whole of addToDownloadHistory: the list is rebuilt, then
\* saveDownloadHistory writes it to localStorage
RecordHistory(title, format, time) ==
    /\ historyList' = AddToDownloadHistory(title, format, time)
    /\ storage' = SaveDownloadHistory(historyList')
    /\ appended' = <<[title |-> title, format |-> format, time |-> time]>> \o appended

\* a loop that also polls on after finished
SingleContinuesAfterFinished(s) == s \in {"downloading", "finished"}

\* the statuses after which checkProgress sets the timer for the next fetch
SingleContinues(s) == s = "downloading"

\* a catch block that gives up
RetryTimersNone == 1 - 1

\* a catch block that sets the retry timer twice
RetryTimersTwice == 1 + 1

\* timers set by the catch block of checkProgress
RetryTimers == 1

\* a timer set by checkProgress fires: the next fetch is issued for
\* whatever this.currentDownloadId holds now
CheckProgress(j) ==
    /\ loops[j].timers > 0
    /\ LogRoom(slog, j)
    /\ loops' = [loops EXCEPT ![j] = [@ EXCEPT !.timers = @ - 1, !.inflight = @ + 1]]
    /\ slog' = LogFetch(slog, j, currentDownloadId)
    /\ UNCHANGED <<currentDownloadId, btn, progress, createReqs, nJobs, fileReqs,
                   saved, histVars, jobReq, batchVars, infoVars, errVars>>

\* the status fetch of loop j resolves with a parsed payload of status s:
\* the if / else-if chain of checkProgress
CheckProgressStatus(j, s) ==
    /\ loops[j].inflight > 0
    /\ s \in SingleStatuses
    /\ s = "error" => hideTimers < MaxTimers
    /\ loops' = [loops EXCEPT ![j] =
                   [@ EXCEPT !.inflight = @ - 1,
                             !.timers = @ + (IF SingleContinues(s) THEN 1 ELSE 0),
                             !.last = s]]
    /\ slog' = LogStatus(slog, j, s)
    /\ progress' = CASE s = "downloading" ->
                          [progress EXCEPT !.fill = "percent", !.text = "percent"]
                     [] s = "finished" ->
                          [progress EXCEPT !.fill = "100", !.text = "100"]
                     [] OTHER -> progress
    /\ btn' = CASE s = "finished" ->
                     [btn EXCEPT !.disabled = FALSE, !.label = "Save File",
                                 !.onclick = TRUE]
                [] s = "error" ->
                     [btn EXCEPT !.disabled = FALSE, !.label = "Download Now"]
                [] OTHER -> btn
    /\ IF s = "finished"
       THEN RecordHistory(TitleOf(currentVideoInfo), NameOf(selectedFormat), Clock)
       ELSE UNCHANGED histVars
    /\ urlError' = IF s = "error" THEN ShowError("status.error") ELSE urlError
    /\ hideTimers' = IF s = "error" THEN hideTimers + 1 ELSE hideTimers
    /\ UNCHANGED <<currentDownloadId, createReqs, nJobs, jobReq, fileReqs, saved,
                   batchVars, infoVars>>

\* the status fetch of loop j fails (network error, payload not JSON):
\* the catch block logs to the console and sets the retry timer
CheckProgressFail(j) ==
    /\ loops[j].inflight > 0
    /\ loops' = [loops EXCEPT ![j] =
                   [@ EXCEPT !.inflight = @ - 1, !.timers = @ + RetryTimers]]
    /\ slog' = LogFail(slog, j)
    /\ UNCHANGED <<currentDownloadId, btn, progress, createReqs, nJobs, fileReqs,
                   saved, histVars, jobReq, batchVars, infoVars, errVars>>

\* ------------------------------------------------------------- downloadFile
\* a reset that keeps the identifier
ResetDownloadIdKept == currentDownloadId

\* this.currentDownloadId after resetDownloadUI
ResetDownloadId == NoJob

\* /download_file/j answered ok: the blob is saved under
\* currentVideoInfo.title + '.' + selectedFormat.ext, then resetDownloadUI
DownloadFileOk(j) ==
    /\ fileReqs[j] > 0
    /\ fileReqs' = [fileReqs EXCEPT ![j] = @ - 1]
    /\ saved' = [id |-> j, title |-> currentVideoInfo, format |-> selectedFormat]
    /\ progress' = [progress EXCEPT !.shown = FALSE, !.fill = "0"]
    /\ btn' = [btn EXCEPT !.shown = FALSE]
    /\ currentDownloadId' = ResetDownloadId
    /\ UNCHANGED <<createReqs, nJobs, loops, histVars, jobReq, slog, batchVars,
                   infoVars, errVars>>

\* /download_file/j rejected or failed: the catch block
DownloadFileFail(j) ==
    /\ fileReqs[j] > 0
    /\ hideTimers < MaxTimers
    /\ fileReqs' = [fileReqs EXCEPT ![j] = @ - 1]
    /\ urlError' = ShowError("Failed to download file")
    /\ hideTimers' = hideTimers + 1
    /\ UNCHANGED <<currentDownloadId, btn, progress, createReqs, nJobs, loops,
                   saved, histVars, jobReq, slog, batchVars, infoVars>>

\* ------------------------------------------------------- startBatchDownload
\* urls = urlsText.split('\n').filter(url => url.trim()).map(url => url.trim())
BatchUrls(text) ==
    LET NonBlank(line) == Trim(line) # ""
        kept == SelectSeq(text, NonBlank)
    IN [i \in 1..Len(kept) |-> Trim(kept[i])]

\* format_id: this.selectedFormat?.format_id || 'best'
BestFormat == [meta |-> NoMeta, name |-> "best"]
BatchFormat == IF selectedFormat = NoFormat THEN BestFormat ELSE selectedFormat

\* click on #batchDownloadBtn with `text` in the textarea; a text that
\* trims to nothing returns at once
StartBatchDownload(text) ==
    /\ IF BatchUrls(text) = <<>>
       THEN UNCHANGED batchVars
       ELSE /\ Len(batchReqs) < MaxBatchReqs
            /\ batchProgress' = [kind |-> "starting", completed |-> 0,
                                 total |-> 0, pct |-> 0]
            /\ batchReqs' = Append(batchReqs, [urls |-> BatchUrls(text),
                                               format |-> BatchFormat])
            /\ UNCHANGED <<nBatches, bloops, blog>>
    /\ UNCHANGED <<singleVars, infoVars, errVars>>

\* the i-th /batch_download in flight is answered ok with batch_id id:
\* monitorBatchProgress(data.batch_id, urls.length) issues its first fetch
StartBatchDownloadOk(i, id) ==
    /\ i \in DOMAIN batchReqs
    /\ id = nBatches + 1
    /\ batchReqs' = Remove(batchReqs, i)
    /\ nBatches' = nBatches + 1
    /\ bloops' = [bloops EXCEPT ![id] =
                    [@ EXCEPT !.started = TRUE, !.inflight = @ + 1,
                              !.total = Len(batchReqs[i].urls)]]
    /\ blog' = LogFetch([NoLog EXCEPT !.id = id], id, id)
    /\ UNCHANGED <<batchProgress, singleVars, infoVars, errVars>>

\* /batch_download rejected or failed: the catch block writes the message
\* into #batchProgress
StartBatchDownloadFail(i) ==
    /\ i \in DOMAIN batchReqs
    /\ batchReqs' = Remove(batchReqs, i)
    /\ batchProgress' = [kind |-> "error", completed |-> 0, total |-> 0, pct |-> 0]
    /\ UNCHANGED <<nBatches, bloops, blog, singleVars, infoVars, errVars>>

\* ----------------------------------------------------- monitorBatchProgress
\* the statuses after which the batch checkProgress sets its timer
BatchContinues(s) == s = "processing"

\* a percentage that is cut off instead of rounded
BatchPercentFloor(completed, total) == (100 * completed) \div total

\* Math.round((completed / total) * 100)
BatchPercent(completed, total) == (200 * completed + total) \div (2 * total)

\* a timer set by the batch checkProgress fires: the next fetch is issued
\* for the batchId of the closure
BatchCheckProgress(b) ==
    /\ bloops[b].timers > 0
    /\ LogRoom(blog, b)
    /\ bloops' = [bloops EXCEPT ![b] = [@ EXCEPT !.timers = @ - 1, !.inflight = @ + 1]]
    /\ blog' = LogFetch(blog, b, b)
    /\ UNCHANGED <<batchReqs, nBatches, batchProgress, singleVars, infoVars, errVars>>

\* the batch status fetch resolves with status s and completed count c
BatchCheckProgressStatus(b, s, c) ==
    /\ bloops[b].inflight > 0
    /\ s \in BatchStatuses
    /\ c \in 0..bloops[b].total
    /\ s # "processing" => c = 0
    /\ bloops' = [bloops EXCEPT ![b] =
                    [@ EXCEPT !.inflight = @ - 1,
                              !.timers = @ + (IF BatchContinues(s) THEN 1 ELSE 0),
                              !.last = s]]
    /\ blog' = LogStatus(blog, b, s)
    /\ batchProgress' =
         CASE s = "processing" ->
                [kind |-> "progress", completed |-> c, total |-> bloops[b].total,
                 pct |-> BatchPercent(c, bloops[b].total)]
           [] s = "finished" ->
                [kind |-> "success", completed |-> 0, total |-> bloops[b].total,
                 pct |-> 0]
           [] OTHER -> batchProgress
    /\ UNCHANGED <<batchReqs, nBatches, singleVars, infoVars, errVars>>

\* the batch status fetch fails: the catch block sets the retry timer
BatchCheckProgressFail(b) ==
    /\ bloops[b].inflight > 0
    /\ bloops' = [bloops EXCEPT ![b] =
                    [@ EXCEPT !.inflight = @ - 1, !.timers = @ + RetryTimers]]
    /\ blog' = LogFail(blog, b)
    /\ UNCHANGED <<batchReqs, nBatches, batchProgress, singleVars, infoVars, errVars>>

\* ------------------------------------------------------------ specification
\* the steps of the page, with the inputs of the backend and of the user
\* drawn from the given sets
SelectNext(metas) ==
    \/ \E url \in OneUrl : ValidateUrl(url)
    \/ FetchVideoInfo
    \/ \E m \in metas : FetchVideoInfoOk(m)
    \/ \E m \in metas : \E f \in FormatsOf(m) : SelectFormat(f)

InfoNext(metas) ==
    \/ SelectNext(metas)
    \/ FetchVideoInfoFail
    \/ HideError

DownloadNext(ids) ==
    \/ ClickDownloadBtn
    \/ \E i \in 1..MaxCreateReqs : \E id \in ids : StartDownloadOk(i, id)
    \/ \E i \in 1..MaxCreateReqs : StartDownloadFail(i)
    \/ \E j \in ids : CheckProgress(j)
    \/ \E j \in ids : \E s \in SingleStatuses : CheckProgressStatus(j, s)
    \/ \E j \in ids : CheckProgressFail(j)

SingleNext(ids) ==
    \/ DownloadNext(ids)
    \/ \E j \in ids : DownloadFileOk(j)
    \/ \E j \in ids : DownloadFileFail(j)

BatchNext(ids, texts) ==
    \/ \E text \in texts : StartBatchDownload(text)
    \/ \E i \in 1..MaxBatchReqs : \E id \in ids : StartBatchDownloadOk(i, id)
    \/ \E i \in 1..MaxBatchReqs : StartBatchDownloadFail(i)
    \/ \E b \in ids : BatchCheckProgress(b)
    \/ \E b \in ids : \E s \in BatchStatuses : \E c \in 0..MaxLines :
          BatchCheckProgressStatus(b, s, c)
    \/ \E b \in ids : BatchCheckProgressFail(b)

Next == InfoNext(Metas) \/ SingleNext(JobIds) \/ BatchNext(BatchIds, BatchTexts)

Spec == Init /\ [][Next]_vars

\* the two polling loops side by side: one video whose metadata fetch
\* succeeds and whose format is selected once, one single download and one
\* batch, no retrieval answered
SpecPoll ==
    Init /\ [][(selectedFormat = NoFormat /\ SelectNext(OneVideo)) \/ HideError
                 \/ DownloadNext(OneJob) \/ BatchNext(OneJob, PollTexts)]_vars

\* the single-download controller alone, one video
SpecSingle == Init /\ [][InfoNext(OneVideo) \/ SingleNext(JobIds)]_vars

\* the single-download controller with several videos, one download
SpecMeta == Init /\ [][InfoNext(Metas) \/ SingleNext(OneJob)]_vars

\* the batch controller alone, one video whose metadata fetch succeeds
SpecBatch == Init /\ [][SelectNext(OneVideo) \/ BatchNext(BatchIds, BatchTexts)]_vars

\* one batch, every text of the textarea, one video
SpecTotal == Init /\ [][SelectNext(OneVideo) \/ BatchNext(OneJob, BatchTexts)]_vars

\* the URL field and the metadata fetch alone
SpecUrl == Init /\ [][(\E url \in Urls : ValidateUrl(url)) \/ InfoNext(OneVideo)]_vars

\* the history store alone.  The storage holds what saveDownloadHistory
\* wrote in earlier sessions (at most 10 records, formats and times as it
\* writes them); each step is one call of addToDownloadHistory.
HistoryFormats == {<<"mp4">>, <<"mp4", Sep, "hd">>}

OldTime(n) == [k \in 1..n |-> "0"]

Persisted(n) ==
    [i \in 1..n |-> [title |-> TitleOf("v0"), format |-> <<"mp4">>,
                     time |-> OldTime(n - i + 1)]]

InitHistory == \E n \in 0..HistoryCap : PageInit(Persisted(n))

AppendHistory(title, format) ==
    /\ Len(appended) < MaxAppends
    /\ RecordHistory(title, format, Clock)
    /\ UNCHANGED <<currentDownloadId, btn, progress, createReqs, nJobs, jobReq,
                   loops, fileReqs, saved, slog, batchVars, infoVars, errVars>>

SpecHistory ==
    InitHistory /\ [][\E f \in HistoryFormats : AppendHistory(TitleOf("v1"), f)]_vars

\* ================================================================ claims
ObservedTerminal(l) == l.last \in Terminal

\* r is `c` repeated any number of times, then finished
ThenFinished(r, c) ==
    /\ Len(r) > 0
    /\ Last(r) = "finished"
    /\ \A i \in 1..(Len(r) - 1) : r[i] = c

C1_Log(log, l, c) ==
    (log.id # NoJob /\ ThenFinished(log.resp, c)) =>
        /\ log.handled = log.resp
        /\ Len(log.polled) = Len(log.resp)
        /\ ~Live(l[log.id])

\* C1: when the status fetches of a loop returned downloading (processing
\* for a batch) N times and then finished, the statuses were handled N+1
\* times in that order, exactly N+1 fetches were issued, and the loop has no
\* fetch in flight and no timer set; no loop that handled finished last has
\* a fetch in flight or a timer set.
C1_PollSequence ==
    /\ C1_Log(slog, loops, "downloading")
    /\ C1_Log(blog, bloops, "processing")
    /\ \A j \in JobIds : loops[j].last = "finished" => ~Live(loops[j])
    /\ \A b \in BatchIds : bloops[b].last = "finished" => ~Live(bloops[b])

C1_Witness ==
    /\ slog.resp = <<"downloading", "finished">>
    /\ blog.resp = <<"processing", "finished">>

C2_Log(log) ==
    (log.id # NoJob /\ ThenFinished(log.resp, "fail")) =>
        /\ log.handled = <<"finished">>
        /\ Len(log.polled) = Len(log.resp)

C2_Failure(old, new, l) ==
    (new.id = old.id /\ new.resp = Append(old.resp, "fail")) =>
        /\ l'[old.id].timers = l[old.id].timers + 1
        /\ l'[old.id].inflight = l[old.id].inflight - 1
        /\ new.handled = old.handled
        /\ UNCHANGED <<btn, progress, urlError, hideTimers, batchProgress,
                       historyList, currentDownloadId>>

\* C2: when the first M fetches of a loop failed and the next returned
\* finished, exactly one status (finished) was handled after M+1 fetches;
\* a failing fetch changes nothing the user sees, shows no error, and sets
\* one retry timer.
C2_TransportFailures ==
    [][/\ C2_Log(slog)' /\ C2_Failure(slog, slog', loops)
       /\ C2_Log(blog)' /\ C2_Failure(blog, blog', bloops)]_vars

C2_Witness ==
    /\ slog.resp = <<"fail", "finished">>
    /\ blog.resp = <<"fail", "finished">>

\* C3: a loop whose last handled status is non-terminal (pending,
\* downloading, processing) has a fetch in flight or a timer set.
C3_NonTerminalContinues ==
    /\ \A j \in JobIds : loops[j].last \in NonTerminal => Live(loops[j])
    /\ \A b \in BatchIds : bloops[b].last \in NonTerminal => Live(bloops[b])

\* C4: at most one single-job loop is live, at most one started loop has not
\* observed a terminal status, at most one creation request is in flight,
\* and while one is in flight every started loop has observed a terminal
\* status.
C4_OneSingleJob ==
    /\ Cardinality({j \in JobIds : Live(loops[j])}) <= 1
    /\ Cardinality({j \in JobIds : loops[j].started /\ ~ObservedTerminal(loops[j])}) <= 1
    /\ Len(createReqs) <= 1
    /\ createReqs # <<>> =>
          \A j \in JobIds : loops[j].started => ObservedTerminal(loops[j])

C4_Witness ==
    /\ ObservedTerminal(loops[1])
    /\ Live(loops[2])

\* C5: at most one batch loop is live, and no batch creation request is in
\* flight while a batch loop is live.
C5_OneBatchJob ==
    /\ Cardinality({b \in BatchIds : Live(bloops[b])}) <= 1
    /\ batchReqs # <<>> => \A b \in BatchIds : ~Live(bloops[b])

\* C6: a click that runs startDownload with no format selected or no
\* metadata held issues no request, starts no loop, keeps the job
\* identifier, and shows the validation error.
C6_ValidationOnly ==
    [][(ClickDownloadBtn /\ (selectedFormat = NoFormat \/ currentVideoInfo = NoMeta))
          => /\ UNCHANGED <<createReqs, nJobs, loops, fileReqs, currentDownloadId>>
             /\ urlError' = "Please select a format first"
             /\ hideTimers' = hideTimers + 1]_vars

C6_Witness ==
    /\ urlError = "Please select a format first"
    /\ selectedFormat = NoFormat
    /\ createReqs = <<>> /\ nJobs = 0

\* C7: the selected format is absent or one of the formats of the held
\* metadata.
C7_SelectionOfHeldMetadata ==
    selectedFormat = NoFormat \/ selectedFormat \in FormatsOf(currentVideoInfo)

\* C8: the step in which a single-job loop handles status error shows the
\* error, discards the job identifier, re-enables the button as Download
\* Now, and keeps selection and metadata.
C8_ErrorDiscardsJob ==
    [][\A j \in JobIds :
          CheckProgressStatus(j, "error")
             => /\ urlError' # NoError
                /\ currentDownloadId' = NoJob
                /\ ~btn'.disabled /\ btn'.label = "Download Now"
                /\ UNCHANGED <<selectedFormat, currentVideoInfo>>]_vars

\* C9: a /download_file request is issued only for the held job, and only
\* when the loop of that job last handled finished.
C9_RetrieveOnlyWhenReady ==
    [][\A j \in JobIds :
          fileReqs'[j] > fileReqs[j]
             => /\ currentDownloadId = j
                /\ loops[j].last = "finished"]_vars

Newest(n) == SubSeq(appended, 1, IF Len(appended) < n THEN Len(appended) ELSE n)

\* C11: the history list holds at most 10 items; they are the most recently
\* recorded entries, newest first, each rendered with its own title, format
\* and time; and the storage holds one record per item, in the same order
\* and with the same titles.
C11_HistoryCap ==
    /\ Len(historyList) <= 10
    /\ Len(historyList) = Len(Newest(10))
    /\ \A i \in DOMAIN historyList :
          /\ historyList[i].strong = appended[i].title
          /\ historyList[i].info =
                appended[i].format \o <<Blank, Sep, Blank>> \o appended[i].time
    /\ Len(storage) = Len(historyList)
    /\ \A i \in DOMAIN storage : storage[i].title = appended[i].title

\* eleven entries recorded on an empty history: ten are left, the first
\* one recorded is gone
C11_Witness ==
    /\ Len(appended) = 11
    /\ Last(appended).time = TimeString(1)
    /\ Len(historyList) = 10
    /\ Last(historyList).info = appended[10].format \o <<Blank, Sep, Blank>> \o TimeString(2)

\* C12: the records in the storage are the entries the list shows, in
\* order and unaltered, so that loading them rebuilds the list as it is.
C12_RoundTrip ==
    /\ storage = Newest(10)
    /\ LoadDownloadHistory(storage) = historyList

Answered(r) == SelectSeq(r, LAMBDA x : x # "fail")

C13_Log(log, l) ==
    log.id # NoJob =>
        /\ Len(log.polled) = Len(log.resp) + l[log.id].inflight
        /\ log.handled = Answered(log.resp)

\* C13: a loop has at most one status fetch in flight, and no timer for the
\* next fetch while one is in flight; every fetch issued before the one in
\* flight has resolved, and the statuses handled are the answers of the
\* resolved fetches, in the order the fetches were issued.
C13_SequentialFetches ==
    /\ \A j \in JobIds : loops[j].inflight + loops[j].timers <= 1
    /\ \A b \in BatchIds : bloops[b].inflight + bloops[b].timers <= 1
    /\ C13_Log(slog, loops)
    /\ C13_Log(blog, bloops)

C13_Witness ==
    /\ Len(slog.polled) = 2 /\ slog.resp = <<"downloading">>
    /\ loops[1].inflight = 1
    /\ Len(blog.polled) = 2 /\ blog.resp = <<"fail">>
    /\ bloops[1].inflight = 1

\* C14: the step that ends a single-job creation request with a failure
\* starts no loop, issues no job identifier, keeps the held identifier,
\* shows the error and leaves the button enabled as Download Now; the step
\* that ends a batch creation request with a failure starts no loop, issues
\* no batch identifier and renders the error in the batch area.
C14_FailedCreation ==
    [][/\ \A i \in 1..MaxCreateReqs :
             StartDownloadFail(i)
                => /\ UNCHANGED <<loops, nJobs, currentDownloadId, slog>>
                   /\ urlError' = "Download failed"
                   /\ ~btn'.disabled /\ btn'.label = "Download Now"
       /\ \A i \in 1..MaxBatchReqs :
             StartBatchDownloadFail(i)
                => /\ UNCHANGED <<bloops, nBatches, blog>>
                   /\ batchProgress'.kind = "error"]_vars

C14_Witness ==
    /\ urlError = "Download failed"
    /\ ~btn.disabled /\ btn.label = "Download Now"
    /\ createReqs = <<>> /\ nJobs = 0 /\ currentDownloadId = NoJob
    /\ batchProgress.kind = "error"
    /\ batchReqs = <<>> /\ nBatches = 0

\* C15: every step that handles a failure or a status either leaves the
\* loop with a fetch in flight or a timer set, or renders an outcome: a
\* failed status fetch sets the retry timer; a failed creation or retrieval
\* and a rejected click show an error; a single-job loop that stops has
\* rendered Save File or shown the error; a batch loop that stops has
\* rendered success or an error.
C15_NoSilentFailure ==
    [][/\ \A j \in JobIds : CheckProgressFail(j) => Live(loops'[j])
       /\ \A b \in BatchIds : BatchCheckProgressFail(b) => Live(bloops'[b])
       /\ \A i \in 1..MaxCreateReqs : StartDownloadFail(i) => urlError' # NoError
       /\ \A i \in 1..MaxBatchReqs :
             StartBatchDownloadFail(i) => batchProgress'.kind = "error"
       /\ \A j \in JobIds : DownloadFileFail(j) => urlError' # NoError
       /\ (ClickDownloadBtn /\ ~StartDownloadValid) => urlError' # NoError
       /\ \A j \in JobIds : \A s \in SingleStatuses :
             CheckProgressStatus(j, s)
                => \/ Live(loops'[j])
                   \/ btn'.label = "Save File"
                   \/ urlError' # NoError
       /\ \A b \in BatchIds : \A s \in BatchStatuses : \A c \in 0..MaxLines :
             BatchCheckProgressStatus(b, s, c)
                => \/ Live(bloops'[b])
                   \/ batchProgress'.kind \in {"success", "error"}]_vars

\* C16: an input event leaves #fetchInfoBtn enabled exactly when the value
\* typed parses as a URL and has at least 10 characters; a /get_info
\* request is issued only while the button is enabled, and only for a
\* value that does not trim to nothing.
C16_FetchEnabledIffValid ==
    [][/\ \A url \in Urls :
             ValidateUrl(url)
                => (~fetchInfoDisabled' <=> (UrlParses(url) /\ Len(url) >= 10))
       /\ infoReqs' > infoReqs
             => ~fetchInfoDisabled /\ TrimText(urlInput) # <<>>]_vars

\* a fetch was answered for a valid URL, then a value that does not parse
\* was typed
C16_Witness ==
    /\ currentVideoInfo # NoMeta
    /\ urlInput = Junk10
    /\ fetchInfoDisabled
    /\ urlError = "Please enter a valid URL"

\* the held job has finished and its file has not been retrieved
ReadyToSave ==
    /\ currentDownloadId # NoJob
    /\ loops[currentDownloadId].last = "finished"

\* C17: a /start_download request is issued only with a format selected and
\* metadata held, while no loop is live and no finished job awaits
\* retrieval; a click in the ready-to-save state issues no /start_download
\* request; a click while no job is held issues no /download_file request.
C17_StateMachine ==
    [][/\ Len(createReqs') > Len(createReqs)
             => /\ StartDownloadValid
                /\ \A j \in JobIds : ~Live(loops[j])
                /\ ~ReadyToSave
       /\ (ClickDownloadBtn /\ ReadyToSave) => createReqs' = createReqs
       /\ (ClickDownloadBtn /\ currentDownloadId = NoJob) => fileReqs' = fileReqs]_vars

\* C18: the history item recorded when the loop of a job handles finished
\* shows the title and the format name of the request the job was created
\* by, and so does the name of the file saved for the job.
C18_RequestTitleAndFormat ==
    [][\A j \in JobIds :
          /\ CheckProgressStatus(j, "finished")
                => /\ historyList'[1].strong = TitleOf(jobReq[j].title)
                   /\ SplitPart(historyList'[1].info, 0)
                         = NameOf(jobReq[j].format) \o <<Blank>>
          /\ DownloadFileOk(j)
                => /\ saved'.title = jobReq[j].title
                   /\ saved'.format = jobReq[j].format]_vars

\* C19: every status fetch of the single-job loop started last was issued
\* for the identifier the creation call of that loop returned.
C19_PollsOwnJob ==
    \A i \in DOMAIN slog.polled : slog.polled[i] = slog.id

NonBlankLines(text) == Cardinality({i \in DOMAIN text : Trim(text[i]) # ""})

\* p is 100 * c / t rounded to the nearest integer, halves up
Rounded(p, c, t) == 2 * p * t - t <= 200 * c /\ 200 * c < 2 * p * t + t

\* what C20 says of a state
C20_State ==
    /\ \A text \in BatchTexts : Len(BatchUrls(text)) = NonBlankLines(text)
    /\ \A i \in DOMAIN batchReqs : Len(batchReqs[i].urls) >= 1
    /\ \A b \in BatchIds : bloops[b].started => bloops[b].total >= 1
    /\ batchProgress.kind = "progress"
          => /\ batchProgress.total >= 1
             /\ Rounded(batchProgress.pct, batchProgress.completed, batchProgress.total)
    /\ BatchPercent(3, 7) = 43

\* what C20 says of a step
C20_Step ==
    /\ Len(batchReqs') > Len(batchReqs) => Last(batchReqs').format = BatchFormat
    /\ Len(batchReqs') >= Len(batchReqs)
          => \A i \in DOMAIN batchReqs : batchReqs'[i] = batchReqs[i]
    /\ nBatches' > nBatches
          => \E i \in DOMAIN batchReqs :
                bloops'[nBatches'].total = Len(batchReqs[i].urls)
    /\ \A b \in BatchIds : bloops[b].started => bloops'[b].total = bloops[b].total
    /\ (blog'.id = blog.id /\ blog'.handled = Append(blog.handled, "processing"))
          => /\ batchProgress'.kind = "progress"
             /\ batchProgress'.total = bloops[blog.id].total

\* C20: the URLs of a batch request are the non-blank lines of the
\* textarea, at least one, and its format is the one selected at the
\* click; a request in flight is not changed by later steps; the total of a
\* loop is the number of URLs of its request, at least 1, and never
\* changes; on processing the percentage rendered is completed / total *
\* 100 rounded, with the total of the loop (43 for 3 of 7).
C20_BatchTotal == []C20_State /\ [][C20_Step]_vars

\* one of two URLs done, shown as 50 percent, with a format selected
C20_Witness ==
    /\ batchProgress = [kind |-> "progress", completed |-> 1, total |-> 2, pct |-> 50]
    /\ selectedFormat # NoFormat

====
